---- MODULE Spec2Model ----
(***************************************************************************)
(* Model of the single-asset backtester of backend/backtesting:            *)
(* Backtester.run_backtest (backtesting.py), the indicator computation     *)
(* Backtester.calculate_rsi and the crossover strategy buy / sell          *)
(* (logic.py).                                                             *)
(*                                                                         *)
(* Numbers.  Every quantity of the program (close, rsi, cash, position,    *)
(* profit ...) is a binary floating-point number.  The model keeps the     *)
(* IEEE-754 behaviour that the program has -- every +, -, *, / rounds its  *)
(* exact result to the nearest representable value, ties to even, x/0 is   *)
(* an infinity, 0/0 is NaN, every comparison with NaN is false -- with a   *)
(* mantissa of Precision bits instead of 53, so that the integers stay     *)
(* small.  The exponent is unbounded (no overflow, no underflow) and zero  *)
(* carries no sign.  A number is a record [k, m, e]: k = "num" is the      *)
(* value m * 2^e, with m odd or m = e = 0; k = "inf" is the infinity of    *)
(* sign m; k = "nan" is NaN.                                               *)
(*                                                                         *)
(* Specifications.  Spec is one call of run_backtest with the default      *)
(* capital.  SpecAnyCapital, SpecAnyOrder and SpecRising give the call     *)
(* other arguments and feeds; SpecTwice and SpecOtherBars make a second    *)
(* call after the first (SpecScaled with another capital), SpecPair two    *)
(* calls at a time; SpecStrategy calls check_for_buy and check_for_sell    *)
(* (logic_stop_loss.py) on their own.  SpecChat is the TradingAssistant of  *)
(* copilot.py called through api/routes.py.                                *)
(***************************************************************************)
EXTENDS Integers, Sequences, FiniteSets, TLC

\* Bits of mantissa of the floating-point format (53 in the program).
Precision == 5

\* Length of the longest feed get_historical_data returns in the model.
MaxBars == 7

\* Bars in the rsi window and in the rsi_ma window (14 and 14 in the program).
Window == 2

\* Length of the longest feed of a call that runs next to another call.
MaxPairBars == 6

\* The highest close of a rising feed.
MaxClose == 9

\* Bits of mantissa of the numbers of logic_stop_loss.py (53 in the program):
\* enough to tell a price from the price 0.1 % below it.
PricePrecision == 11

\* Length of the longest conversation history of the assistant.
MaxMessages == 10

\* The most tool calls one reply of the model carries.
MaxToolCalls == 2

----------------------------------------------------------------------------
(* Floating-point arithmetic *)

Abs(n) == IF n < 0 THEN -n ELSE n

Sgn(n) == IF n < 0 THEN -1 ELSE IF n > 0 THEN 1 ELSE 0

Min2(a, b) == IF a <= b THEN a ELSE b

RECURSIVE BitLen(_)
BitLen(n) == IF n = 0 THEN 0 ELSE 1 + BitLen(n \div 2)

\* m * 2^e with m made odd (the canonical form of a value).
RECURSIVE Norm(_, _)
Norm(m, e) ==
    IF m = 0 THEN [k |-> "num", m |-> 0, e |-> 0]
    ELSE IF m % 2 = 0 THEN Norm(m \div 2, e + 1)
    ELSE [k |-> "num", m |-> m, e |-> e]

\* a >= 0 shifted right by s >= 1 bits, rounded to nearest, ties to even.
RoundShift(a, s) ==
    LET q == a \div (2 ^ s)
        r == a % (2 ^ s)
        half == 2 ^ (s - 1)
    IN  IF r > half \/ (r = half /\ q % 2 = 1) THEN q + 1 ELSE q

\* The exact value m * 2^e rounded to Precision bits of mantissa.
RoundP(m, e) ==
    LET a == Abs(m)
        len == BitLen(a)
    IN  IF len <= Precision THEN Norm(m, e)
        ELSE Norm(Sgn(m) * RoundShift(a, len - Precision), e + (len - Precision))

NaN == [k |-> "nan", m |-> 0, e |-> 0]

Inf(s) == [k |-> "inf", m |-> s, e |-> 0]

\* The integer n as a floating-point number.
Fl(n) == RoundP(n, 0)

IsNaN(x) == x.k = "nan"

IsNum(x) == x.k = "num"

Neg(x) == [x EXCEPT !.m = -x.m]

\* a < b; false when either is NaN.
Less(a, b) ==
    /\ ~IsNaN(a)
    /\ ~IsNaN(b)
    /\ IF a.k = "inf" THEN a.m < 0 /\ ~(b.k = "inf" /\ b.m < 0)
       ELSE IF b.k = "inf" THEN b.m > 0
       ELSE LET e == Min2(a.e, b.e)
            IN  a.m * (2 ^ (a.e - e)) < b.m * (2 ^ (b.e - e))

\* a == b as Python compares floats; false when either is NaN.
FEq(a, b) == ~IsNaN(a) /\ ~IsNaN(b) /\ a = b

LessEq(a, b) == Less(a, b) \/ FEq(a, b)

Add(a, b) ==
    IF IsNaN(a) \/ IsNaN(b) THEN NaN
    ELSE IF a.k = "inf" THEN (IF b.k = "inf" /\ b.m # a.m THEN NaN ELSE a)
    ELSE IF b.k = "inf" THEN b
    ELSE LET e == Min2(a.e, b.e)
         IN  RoundP(a.m * (2 ^ (a.e - e)) + b.m * (2 ^ (b.e - e)), e)

Sub(a, b) == Add(a, Neg(b))

Mul(a, b) ==
    IF IsNaN(a) \/ IsNaN(b) THEN NaN
    ELSE IF a.k = "inf" \/ b.k = "inf"
         THEN (IF a.m = 0 \/ b.m = 0 THEN NaN ELSE Inf(Sgn(a.m) * Sgn(b.m)))
    ELSE RoundP(a.m * b.m, a.e + b.e)

\* The quotient is computed to 2 * Precision + 2 bits and a sticky bit
\* for the remainder, which is enough to round it correctly.
Div(a, b) ==
    IF IsNaN(a) \/ IsNaN(b) THEN NaN
    ELSE IF a.k = "inf" THEN (IF b.k = "inf" THEN NaN
                              ELSE Inf(a.m * (IF b.m < 0 THEN -1 ELSE 1)))
    ELSE IF b.k = "inf" THEN Fl(0)
    ELSE IF b.m = 0 THEN (IF a.m = 0 THEN NaN ELSE Inf(Sgn(a.m)))
    ELSE LET sh == 2 * Precision + 1
             qa == Abs(a.m) * (2 ^ sh)
             q  == qa \div Abs(b.m)
             r  == qa % Abs(b.m)
             mm == 2 * q + (IF r # 0 THEN 1 ELSE 0)
         IN  RoundP(Sgn(a.m) * Sgn(b.m) * mm, a.e - b.e - sh - 1)

\* The exact value m * 2^e rounded to p bits of mantissa.
RoundTo(p, m, e) ==
    LET a == Abs(m)
        len == BitLen(a)
    IN  IF len <= p THEN Norm(m, e)
        ELSE Norm(Sgn(m) * RoundShift(a, len - p), e + (len - p))

\* a - b and a * b rounded to p bits of mantissa.
SubTo(p, a, b) ==
    IF IsNaN(a) \/ IsNaN(b) THEN NaN
    ELSE IF a.k = "inf" THEN (IF b.k = "inf" /\ b.m = a.m THEN NaN ELSE a)
    ELSE IF b.k = "inf" THEN Neg(b)
    ELSE LET e == Min2(a.e, b.e)
         IN  RoundTo(p, a.m * (2 ^ (a.e - e)) - b.m * (2 ^ (b.e - e)), e)

MulTo(p, a, b) ==
    IF IsNaN(a) \/ IsNaN(b) THEN NaN
    ELSE IF a.k = "inf" \/ b.k = "inf"
         THEN (IF a.m = 0 \/ b.m = 0 THEN NaN ELSE Inf(Sgn(a.m) * Sgn(b.m)))
    ELSE RoundTo(p, a.m * b.m, a.e + b.e)

\* The decimal literal n / d (n >= 0, d > 0) as a number of p bits of
\* mantissa: the quotient to at least p + 2 bits and a sticky bit, rounded.
Decimal(p, n, d) ==
    LET sh == p + 2 + BitLen(d)
        qa == n * (2 ^ sh)
        q  == qa \div d
        r  == qa % d
        mm == 2 * q + (IF r # 0 THEN 1 ELSE 0)
    IN  RoundTo(p, mm, -sh - 1)

----------------------------------------------------------------------------
(* The feed *)

\* Close prices a bar of the feed may carry (positive).
Prices == {Fl(1), Fl(3), Fl(4)}

\* Values of the initial_capital argument (its default, 100).
InitialCapitals == {Fl(100)}

\* A bar of the feed: its timestamp (the index of the DataFrame) and its close.
\* The timestamp of the n-th bar of a feed is n.
Bar(n, c) == [timestamp |-> n, close |-> c]

\* The feed whose closes are the sequence cs.
FeedOf(cs) == [n \in 1..Len(cs) |-> Bar(n, cs[n])] \o <<>>

----------------------------------------------------------------------------
(* Indicator engine: Backtester.calculate_rsi and the rsi_ma column *)

\* A series (a column of the DataFrame) is a sequence, the first bar at 1.
\* Series(f) is the function f on 1..n as a sequence.
Series(f) == f \o <<>>

\* A difference taken to the next row instead of the previous one.
Diff_Forward(prices) ==
    Series([n \in 1..Len(prices) |->
               IF n = Len(prices) THEN NaN ELSE Sub(prices[n + 1], prices[n])])

\* prices.diff(): NaN at the first index.
Diff(prices) ==
    Series([n \in 1..Len(prices) |->
               IF n = 1 THEN NaN ELSE Sub(prices[n], prices[n - 1])])

\* s.where(s > 0, 0): a NaN fails the condition and becomes 0.
WherePositive(s) ==
    Series([n \in 1..Len(s) |-> IF Less(Fl(0), s[n]) THEN s[n] ELSE Fl(0)])

\* s.where(s < 0, 0)
WhereNegative(s) ==
    Series([n \in 1..Len(s) |-> IF Less(s[n], Fl(0)) THEN s[n] ELSE Fl(0)])

\* -s
NegSeries(s) == Series([n \in 1..Len(s) |-> Neg(s[n])])

\* The sum s[lo] + ... + s[hi], added from the left.
RECURSIVE SumRange(_, _, _)
SumRange(s, lo, hi) ==
    IF lo > hi THEN Fl(0)
    ELSE IF lo = hi THEN s[lo]
    ELSE Add(SumRange(s, lo, hi - 1), s[hi])

\* s.rolling(window=w).mean(): NaN until w observations are in the window
\* and whenever one of them is NaN.
RollingMean(s, w) ==
    Series([n \in 1..Len(s) |->
               IF n < w \/ (\E j \in (n - w + 1)..n : IsNaN(s[j])) THEN NaN
               ELSE Div(SumRange(s, n - w + 1, n), Fl(w))])

\* An rsi that is undefined wherever the average loss is 0.
RsiOf_UndefinedOnZeroLoss(gain, loss) ==
    Series([n \in 1..Len(gain) |->
               IF loss[n] = Fl(0) THEN NaN
               ELSE Sub(Fl(100), Div(Fl(100), Add(Fl(1), Div(gain[n], loss[n]))))])

\* rsi = 100 - (100 / (1 + rs)) with rs = gain / loss
RsiOf(gain, loss) ==
    Series([n \in 1..Len(gain) |->
               Sub(Fl(100), Div(Fl(100), Add(Fl(1), Div(gain[n], loss[n]))))])

\* gain and loss of the series delta, and the rsi of them.
RsiOfDelta(delta, window) ==
    RsiOf(RollingMean(WherePositive(delta), window),
          RollingMean(NegSeries(WhereNegative(delta)), window))

calculate_rsi(prices, window) == RsiOfDelta(Diff(prices), window)

\* Backtester.__init__: both windows (scaled down from 14 to Window).
rsi_window == Window

ma_window == Window

\* The feed b with the columns rsi and rsi_ma.
WithColumns(b, rsi, rsi_ma) ==
    Series([n \in 1..Len(b) |->
               [timestamp |-> b[n].timestamp, close |-> b[n].close,
                rsi |-> rsi[n], rsi_ma |-> rsi_ma[n]]])

\* bars['rsi_ma'] = bars['rsi'].rolling(window=self.ma_window).mean()
WithRsi(b, rsi) == WithColumns(b, rsi, RollingMean(rsi, ma_window))

\* bars['rsi'] = self.calculate_rsi(bars['close'], self.rsi_window)
Annotate(b) ==
    WithRsi(b, calculate_rsi(Series([n \in 1..Len(b) |-> b[n].close]), rsi_window))

HasNaN(row) == IsNaN(row.close) \/ IsNaN(row.rsi) \/ IsNaN(row.rsi_ma)

\* bars.dropna(): the rows with no NaN, in their order.
DropNa(f) == SelectSeq(f, LAMBDA row : ~HasNaN(row))

----------------------------------------------------------------------------
(* Strategy: logic.buy and logic.sell *)

\* buy with comparisons that are not strict.
buy_NotStrict(rsi_prev, rsi_now, rsi_ma, current_price, prev_price) ==
    LET delta_price == Sub(current_price, prev_price)
    IN  LessEq(rsi_ma, rsi_now) /\ LessEq(Fl(0), delta_price)

buy(rsi_prev, rsi_now, rsi_ma, current_price, prev_price) ==
    LET delta_price == Sub(current_price, prev_price)
    IN  Less(rsi_ma, rsi_now) /\ Less(Fl(0), delta_price)

sell(rsi_prev, rsi_now, rsi_ma, current_price, prev_price) ==
    LET delta_price == Sub(current_price, prev_price)
    IN  Less(rsi_now, rsi_ma) /\ Less(delta_price, Fl(0))

----------------------------------------------------------------------------
(* Stop-loss strategy: logic_stop_loss.check_for_buy and check_for_sell *)

\* The literal 0.99
StopLossFactor == Decimal(PricePrecision, 99, 100)

\* check_for_buy without its test of is_invested.
check_for_buy_AlsoInvested(rsi_now, rsi_ma, current_price, prev_price, is_invested) ==
    LET delta_price == SubTo(PricePrecision, current_price, prev_price)
    IN  Less(rsi_ma, rsi_now) /\ Less(Fl(0), delta_price)

check_for_buy(rsi_now, rsi_ma, current_price, prev_price, is_invested) ==
    LET delta_price == SubTo(PricePrecision, current_price, prev_price)
    IN  Less(rsi_ma, rsi_now) /\ Less(Fl(0), delta_price) /\ ~is_invested

\* check_for_sell without its take-profit condition.
check_for_sell_StopLossOnly(rsi_now, rsi_ma, current_price, purchase_price, is_invested) ==
    IF ~is_invested THEN FALSE
    ELSE Less(current_price, MulTo(PricePrecision, purchase_price, StopLossFactor))

\* check_for_sell without its stop-loss.
check_for_sell_TakeProfitOnly(rsi_now, rsi_ma, current_price, purchase_price, is_invested) ==
    IF ~is_invested THEN FALSE ELSE Less(rsi_now, rsi_ma)

check_for_sell(rsi_now, rsi_ma, current_price, purchase_price, is_invested) ==
    IF ~is_invested THEN FALSE
    ELSE LET stop_loss_price ==
                 MulTo(PricePrecision, purchase_price, StopLossFactor)
             take_profit_condition == Less(rsi_now, rsi_ma)
         IN  Less(current_price, stop_loss_price) \/ take_profit_condition

----------------------------------------------------------------------------
(* Backtester.run_backtest *)

VARIABLES
    pc,               \* position of the call: "fetch", "fetched_df",
                      \* "fetched_none", "loop", "done", "returned_none"
    initial_capital,  \* the argument (line 46)
    bars,             \* the DataFrame get_historical_data returned (line 49)
    frame,            \* bars after the indicator columns and dropna() (line 61)
    i,                \* the loop index, a 0-based position in frame (line 74)
    cash,             \* line 67
    position,         \* line 68
    position_value,   \* line 69
    in_position,      \* line 70
    trades,           \* line 71
    final_value,      \* line 146
    total_return,     \* line 147
    total_return_pct, \* line 148
    evaluated,        \* history: the timestamps of the bars the loop body ran for
    earlier,          \* what an earlier call of run_backtest was given and
                      \* returned, or NoRun
    other,            \* the locals of another call of run_backtest that is in
                      \* progress in another thread, or NoRun
    strategy_call,    \* a call of a function of logic.py or logic_stop_loss.py
                      \* outside a run, its arguments and result, or NoCall
    assistant         \* the TradingAssistant of api/routes.py: its messages
                      \* and the position and locals of its call of chat

vars == <<pc, initial_capital, bars, frame, i, cash, position, position_value,
          in_position, trades, final_value, total_return, total_return_pct,
          evaluated, earlier, other, strategy_call, assistant>>

tradingVars == <<cash, position, position_value, in_position, trades>>

resultVars == <<final_value, total_return, total_return_pct>>

\* What a call of run_backtest leaves alone: the other calls, the calls of
\* the strategy functions outside it and the assistant.
outsideVars == <<earlier, other, strategy_call, assistant>>

NoRun == [pc |-> "none"]

NoCall == [fn |-> "none"]

\* A message of the conversation history: its role, the kinds of the tool
\* calls it carries (an assistant message) and the tool call it answers (a
\* tool message: the index of the assistant message and of the call in it).
Message(role, tool_calls, tool_call_id) ==
    [role |-> role, tool_calls |-> tool_calls, tool_call_id |-> tool_call_id]

SystemMessage == Message("system", <<>>, <<>>)

\* TradingAssistant.__init__: the history holds the system message; no call
\* of chat is in progress.
TradingAssistant ==
    [messages |-> <<SystemMessage>>, pc |-> "idle", tool_calls |-> <<>>,
     done |-> 0, last |-> "none"]

\* The state at the call run_backtest(start_date, end_date, capital), capital
\* in capitals.
Called(capitals) ==
    /\ pc = "fetch"
    /\ initial_capital \in capitals
    /\ bars = <<>>
    /\ frame = <<>>
    /\ i = 0
    /\ cash = Fl(0)
    /\ position = Fl(0)
    /\ position_value = Fl(0)
    /\ in_position = FALSE
    /\ trades = <<>>
    /\ final_value = Fl(0)
    /\ total_return = Fl(0)
    /\ total_return_pct = Fl(0)
    /\ evaluated = <<>>
    /\ earlier = NoRun
    /\ other = NoRun
    /\ strategy_call = NoCall
    /\ assistant = TradingAssistant

Init == Called(InitialCapitals)

\* get_historical_data returns the DataFrame of the bars.
FetchBars ==
    /\ pc = "fetch"
    /\ \E len \in 0..MaxBars : \E cs \in [1..len -> Prices] : bars' = FeedOf(cs)
    /\ pc' = "fetched_df"
    /\ UNCHANGED <<initial_capital, frame, i, tradingVars, resultVars, evaluated,
                   outsideVars>>

\* get_historical_data lets the exception of the fetch through.
FetchRaises_Propagates ==
    /\ pc = "fetch"
    /\ pc' = "raised"
    /\ UNCHANGED <<initial_capital, bars, frame, i, tradingVars, resultVars,
                   evaluated, outsideVars>>

\* get_historical_data catches an exception of the fetch and returns None.
FetchRaises ==
    /\ pc = "fetch"
    /\ pc' = "fetched_none"
    /\ UNCHANGED <<initial_capital, bars, frame, i, tradingVars, resultVars,
                   evaluated, outsideVars>>

\* if bars is None or len(bars) == 0: return None, None
ReturnNone ==
    /\ pc = "fetched_none" \/ (pc = "fetched_df" /\ Len(bars) = 0)
    /\ pc' = "returned_none"
    /\ UNCHANGED <<initial_capital, bars, frame, i, tradingVars, resultVars,
                   evaluated, outsideVars>>

\* CalculateIndicators with a ledger that outlives the call.
CalculateIndicators_KeepsLedger ==
    /\ pc = "fetched_df"
    /\ Len(bars) # 0
    /\ frame' = DropNa(Annotate(bars))
    /\ cash' = initial_capital
    /\ position' = Fl(0)
    /\ position_value' = Fl(0)
    /\ in_position' = FALSE
    /\ i' = 1
    /\ pc' = "loop"
    /\ UNCHANGED <<initial_capital, bars, trades, resultVars, evaluated,
                   outsideVars>>

\* CalculateIndicators with cash left at 0.
CalculateIndicators_NoCash ==
    /\ pc = "fetched_df"
    /\ Len(bars) # 0
    /\ frame' = DropNa(Annotate(bars))
    /\ cash' = Fl(0)
    /\ position' = Fl(0)
    /\ position_value' = Fl(0)
    /\ in_position' = FALSE
    /\ trades' = <<>>
    /\ i' = 1
    /\ pc' = "loop"
    /\ UNCHANGED <<initial_capital, bars, resultVars, evaluated, outsideVars>>

\* The indicator columns, dropna() and the trading variables.
CalculateIndicators ==
    /\ pc = "fetched_df"
    /\ Len(bars) # 0
    /\ frame' = DropNa(Annotate(bars))
    /\ cash' = initial_capital
    /\ position' = Fl(0)
    /\ position_value' = Fl(0)
    /\ in_position' = FALSE
    /\ trades' = <<>>
    /\ i' = 1
    /\ pc' = "loop"
    /\ UNCHANGED <<initial_capital, bars, resultVars, evaluated, outsideVars>>

\* The loop runs its body for i in range(1, len(bars)).
InLoop == pc = "loop" /\ i < Len(frame)

\* bars.iloc[i] and bars.iloc[i-1] (frame is indexed from 1).
current_bar == frame[i + 1]

prev_bar == frame[i]

\* The locals of the loop body.
rsi_now == current_bar.rsi

rsi_prev == prev_bar.rsi

rsi_ma_now == current_bar.rsi_ma

current_price == current_bar.close

prev_price == prev_bar.close

\* The timestamp of the first row instead of the current one.
timestamp_FirstRow == frame[1].timestamp

timestamp == current_bar.timestamp

delta_rsi == Sub(rsi_now, rsi_prev)

delta_price == Sub(current_price, prev_price)

BuySignal == buy(rsi_prev, rsi_now, rsi_ma_now, current_price, prev_price)

SellSignal == sell(rsi_prev, rsi_now, rsi_ma_now, current_price, prev_price)

\* The buy branch without its test of in_position.
BuyCondition_NoFlatCheck == BuySignal

\* if not in_position and buy(...):
BuyCondition == ~in_position /\ BuySignal

\* The sell branch without its test of in_position.
SellCondition_NoLongCheck == ~BuyCondition /\ SellSignal

\* elif in_position and sell(...):
SellCondition == ~BuyCondition /\ in_position /\ SellSignal

\* A stake of 4 whatever the cash is.
BuyPosition_FixedStake == Div(Fl(4), current_price)

\* The quantity bought at the previous bar's close.
BuyPosition_PrevPrice == Div(cash, prev_price)

\* position = cash / current_price
BuyPosition == Div(cash, current_price)

\* The proceeds taken on the price change instead of the price.
SellCash_DeltaPrice == Mul(position, delta_price)

\* cash = position * current_price
SellCash == Mul(position, current_price)

\* What every pass of the loop body does besides trading.
NextBar ==
    /\ i' = i + 1
    /\ evaluated' = Append(evaluated, timestamp)
    /\ UNCHANGED <<pc, initial_capital, bars, frame, resultVars, outsideVars>>

\* Buy with all available cash.
BuyBar ==
    /\ InLoop
    /\ BuyCondition
    /\ position' = BuyPosition
    /\ position_value' = cash
    /\ trades' = Append(trades,
          [timestamp |-> timestamp,
           action |-> "BUY",
           price |-> current_price,
           amount |-> position',
           value |-> cash,
           rsi |-> rsi_now,
           rsi_ma |-> rsi_ma_now,
           delta_rsi |-> delta_rsi,
           delta_price |-> delta_price])
    /\ cash' = Fl(0)
    /\ in_position' = TRUE
    /\ NextBar

\* Sell all position.
SellBar ==
    /\ InLoop
    /\ SellCondition
    /\ cash' = SellCash
    /\ LET profit == Sub(cash', position_value)
           profit_pct == Mul(Div(profit, position_value), Fl(100))
       IN  trades' = Append(trades,
              [timestamp |-> timestamp,
               action |-> "SELL",
               price |-> current_price,
               amount |-> position,
               value |-> cash',
               rsi |-> rsi_now,
               rsi_ma |-> rsi_ma_now,
               delta_rsi |-> delta_rsi,
               delta_price |-> delta_price,
               profit |-> profit,
               profit_pct |-> profit_pct])
    /\ position' = Fl(0)
    /\ position_value' = Fl(0)
    /\ in_position' = FALSE
    /\ NextBar

\* Neither branch is taken.
HoldBar ==
    /\ InLoop
    /\ ~BuyCondition
    /\ ~SellCondition
    /\ UNCHANGED tradingVars
    /\ NextBar

\* The open position marked at bars.iloc[0] instead of bars.iloc[-1].
OpenPositionValue_FirstBar ==
    IF in_position THEN Mul(position, frame[1].close) ELSE Fl(0)

\* position * bars.iloc[-1]['close'] if in_position else 0
OpenPositionValue ==
    IF in_position THEN Mul(position, frame[Len(frame)].close) ELSE Fl(0)

\* The operands of the subtraction exchanged.
TotalReturn_Swapped(fv) == Sub(initial_capital, fv)

\* total_return = final_value - initial_capital
TotalReturn(fv) == Sub(fv, initial_capital)

\* total_return_pct = (total_return / initial_capital) * 100
TotalReturnPct(tr) == Mul(Div(tr, initial_capital), Fl(100))

\* total_return / initial_capital divides 0 by 0 in Python numbers: with no
\* trade made, cash and so final_value and total_return are still Python
\* numbers (after a trade they are numpy floats, whose 0 / 0 is NaN).
ZeroDivision == trades = <<>> /\ initial_capital = Fl(0)

\* Final portfolio value; return trades, final_value
Finish ==
    /\ pc = "loop"
    /\ ~(i < Len(frame))
    /\ ~ZeroDivision
    /\ final_value' = Add(cash, OpenPositionValue)
    /\ total_return' = TotalReturn(final_value')
    /\ total_return_pct' = TotalReturnPct(total_return')
    /\ pc' = "done"
    /\ UNCHANGED <<initial_capital, bars, frame, i, tradingVars, evaluated,
                   outsideVars>>

Next ==
    \/ FetchBars
    \/ FetchRaises
    \/ ReturnNone
    \/ CalculateIndicators
    \/ BuyBar
    \/ SellBar
    \/ HoldBar
    \/ Finish

Spec == Init /\ [][Next]_vars

----------------------------------------------------------------------------
(* run_backtest called with any initial_capital *)

\* Values a caller may pass as initial_capital: the default, zero and a
\* negative amount.
AnyCapitals == {Fl(100), Fl(0), Neg(Fl(100))}

\* total_return_pct = (total_return / initial_capital) * 100 raises
\* ZeroDivisionError, which leaves run_backtest.
FinishRaises ==
    /\ pc = "loop"
    /\ ~(i < Len(frame))
    /\ ZeroDivision
    /\ final_value' = Add(cash, OpenPositionValue)
    /\ total_return' = TotalReturn(final_value')
    /\ pc' = "raised"
    /\ UNCHANGED <<initial_capital, bars, frame, i, tradingVars, evaluated,
                   total_return_pct, outsideVars>>

NextAnyCapital == Next \/ FinishRaises

InitAnyCapital == Called(AnyCapitals)

SpecAnyCapital == InitAnyCapital /\ [][NextAnyCapital]_vars

----------------------------------------------------------------------------
(* run_backtest on a feed whose rows come in any order *)

\* The index of a DataFrame of len rows as get_crypto_bars(...).df may hand
\* it over: increasing, with every timestamp twice, or decreasing.
TimestampOrders(len) ==
    {[n \in 1..len |-> n],
     [n \in 1..len |-> (n + 1) \div 2],
     [n \in 1..len |-> len + 1 - n]}

\* The feed whose rows carry the timestamps ts and the closes cs.
FeedAt(ts, cs) == [n \in 1..Len(cs) |-> Bar(ts[n], cs[n])] \o <<>>

\* get_historical_data returns the DataFrame as it came: it neither sorts it
\* nor looks at its index.
FetchAnyOrder ==
    /\ pc = "fetch"
    /\ \E len \in 0..MaxBars : \E cs \in [1..len -> Prices] :
           \E ts \in TimestampOrders(len) : bars' = FeedAt(ts, cs)
    /\ pc' = "fetched_df"
    /\ UNCHANGED <<initial_capital, frame, i, tradingVars, resultVars, evaluated,
                   outsideVars>>

NextAnyOrder ==
    \/ FetchAnyOrder
    \/ FetchRaises
    \/ ReturnNone
    \/ CalculateIndicators
    \/ BuyBar
    \/ SellBar
    \/ HoldBar
    \/ Finish

SpecAnyOrder == Init /\ [][NextAnyOrder]_vars

----------------------------------------------------------------------------
(* run_backtest on a rising feed *)

\* The numbers of the set S in increasing order.
RECURSIVE Ascending(_)
Ascending(S) ==
    IF S = {} THEN <<>>
    ELSE LET least == CHOOSE x \in S : \A y \in S : x <= y
         IN  <<least>> \o Ascending(S \ {least})

\* get_historical_data returns a DataFrame whose closes rise from every bar
\* to the next.
FetchRisingBars ==
    /\ pc = "fetch"
    /\ \E S \in SUBSET (1..MaxClose) :
           /\ Cardinality(S) <= MaxBars
           /\ bars' = FeedOf([n \in 1..Cardinality(S) |-> Fl(Ascending(S)[n])])
    /\ pc' = "fetched_df"
    /\ UNCHANGED <<initial_capital, frame, i, tradingVars, resultVars, evaluated,
                   outsideVars>>

NextRising == Next \/ FetchRisingBars

SpecRising == Init /\ [][NextRising]_vars

----------------------------------------------------------------------------
(* Several calls of run_backtest: one after another, and two at a time *)

\* get_historical_data returns a DataFrame of at most MaxPairBars bars.
FetchPairBars ==
    /\ pc = "fetch"
    /\ \E len \in 0..MaxPairBars : \E cs \in [1..len -> Prices] :
           bars' = FeedOf(cs)
    /\ pc' = "fetched_df"
    /\ UNCHANGED <<initial_capital, frame, i, tradingVars, resultVars, evaluated,
                   outsideVars>>

\* What a finished call was given and what it returned.
Returned ==
    [pc |-> "done", bars |-> bars, initial_capital |-> initial_capital,
     frame |-> frame, trades |-> trades, final_value |-> final_value]

\* The locals of a call that get_historical_data has just handed the feed b.
Fetched(b, capital) ==
    [pc |-> "fetched_df", initial_capital |-> capital, bars |-> b,
     frame |-> <<>>, i |-> 0, cash |-> Fl(0), position |-> Fl(0),
     position_value |-> Fl(0), in_position |-> FALSE, trades |-> <<>>,
     final_value |-> Fl(0), total_return |-> Fl(0),
     total_return_pct |-> Fl(0), evaluated |-> <<>>]

\* The locals of the call that is running.
Locals ==
    [pc |-> pc, initial_capital |-> initial_capital, bars |-> bars,
     frame |-> frame, i |-> i, cash |-> cash, position |-> position,
     position_value |-> position_value, in_position |-> in_position,
     trades |-> trades, final_value |-> final_value,
     total_return |-> total_return, total_return_pct |-> total_return_pct,
     evaluated |-> evaluated]

\* One in_position for all the calls (a global) instead of a local of each.
ResumedInPosition_Global(r) == in_position

\* in_position of the call whose locals are r: a local of that call.
ResumedInPosition(r) == r.in_position

\* The thread of the call whose locals are r goes on.
Resume(r) ==
    /\ pc' = r.pc
    /\ initial_capital' = r.initial_capital
    /\ bars' = r.bars
    /\ frame' = r.frame
    /\ i' = r.i
    /\ cash' = r.cash
    /\ position' = r.position
    /\ position_value' = r.position_value
    /\ in_position' = ResumedInPosition(r)
    /\ trades' = r.trades
    /\ final_value' = r.final_value
    /\ total_return' = r.total_return
    /\ total_return_pct' = r.total_return_pct
    /\ evaluated' = r.evaluated

\* The closes of the feed b in the opposite order.
Reversed(b) == FeedOf([n \in 1..Len(b) |-> b[Len(b) + 1 - n].close])

\* After a call has returned, run_backtest is called on the same bars and
\* capital again, and by another thread on other bars at the same time.
CallTwoAtATime ==
    /\ pc = "done"
    /\ earlier = NoRun
    /\ earlier' = Returned
    /\ Resume(Fetched(bars, initial_capital))
    /\ other' = Fetched(Reversed(bars), initial_capital)
    /\ UNCHANGED <<strategy_call, assistant>>

\* After a call has returned, run_backtest is called again and
\* get_historical_data returns the same bars.  The trading variables and the
\* result are not assigned before lines 67-71 and 146-148 of the new call.
CallAgain ==
    /\ pc = "done"
    /\ earlier = NoRun
    /\ earlier' = Returned
    /\ pc' = "fetched_df"
    /\ frame' = <<>>
    /\ i' = 0
    /\ evaluated' = <<>>
    /\ UNCHANGED <<initial_capital, bars, tradingVars, resultVars, other,
                   strategy_call, assistant>>

NextTwice == Next \/ CallAgain

SpecTwice == Init /\ [][NextTwice]_vars

\* A close other than c.
OtherClose(c) == IF c = Fl(1) THEN Fl(3) ELSE IF c = Fl(3) THEN Fl(4) ELSE Fl(1)

\* The feed b with every close after the k-th bar changed.
ChangedAfter(b, k) ==
    FeedOf([n \in 1..Len(b) |->
               IF n <= k THEN b[n].close ELSE OtherClose(b[n].close)])

\* After a call has returned, run_backtest is called again and
\* get_historical_data returns bars that are the same up to the k-th and
\* then end or go on differently.
CallOnOtherBars ==
    /\ pc = "done"
    /\ earlier = NoRun
    /\ earlier' = Returned
    /\ \E k \in 0..(Len(bars) - 1) :
           \/ bars' = SubSeq(bars, 1, k)
           \/ bars' = ChangedAfter(bars, k)
    /\ pc' = "fetched_df"
    /\ frame' = <<>>
    /\ i' = 0
    /\ evaluated' = <<>>
    /\ UNCHANGED <<initial_capital, tradingVars, resultVars, other,
                   strategy_call, assistant>>

NextOtherBars ==
    \/ FetchPairBars
    \/ FetchRaises
    \/ ReturnNone
    \/ CalculateIndicators
    \/ BuyBar
    \/ SellBar
    \/ HoldBar
    \/ Finish
    \/ CallOnOtherBars

SpecOtherBars == Init /\ [][NextOtherBars]_vars

\* The scheduler stops the thread of the running call between two steps and
\* lets the thread of the other call go on.
Switch ==
    /\ other # NoRun
    /\ other' = Locals
    /\ Resume(other)
    /\ UNCHANGED <<earlier, strategy_call, assistant>>

NextPair ==
    \/ FetchPairBars
    \/ FetchRaises
    \/ ReturnNone
    \/ CalculateIndicators
    \/ BuyBar
    \/ SellBar
    \/ HoldBar
    \/ Finish
    \/ CallTwoAtATime
    \/ Switch

SpecPair == Init /\ [][NextPair]_vars

----------------------------------------------------------------------------
(* run_backtest called again with another initial_capital *)

\* The initial_capital of the first call, and of the second: 2 and 3 times
\* the first.
BaseCapitals == {Fl(4)}

ScaledCapitals == {Fl(8), Fl(12)}

InitScaled == Called(BaseCapitals)

\* After a call has returned, run_backtest is called with another
\* initial_capital and get_historical_data returns the same bars.
CallScaled ==
    /\ pc = "done"
    /\ earlier = NoRun
    /\ earlier' = Returned
    /\ initial_capital' \in ScaledCapitals
    /\ pc' = "fetched_df"
    /\ frame' = <<>>
    /\ i' = 0
    /\ evaluated' = <<>>
    /\ UNCHANGED <<bars, tradingVars, resultVars, other, strategy_call,
                   assistant>>

NextScaled == Next \/ CallScaled

SpecScaled == InitScaled /\ [][NextScaled]_vars

----------------------------------------------------------------------------
(* The strategy functions called on their own *)

\* The variables of a call of run_backtest.
runVars == <<pc, initial_capital, bars, frame, i, tradingVars, resultVars,
             evaluated>>

\* Values passed as rsi_now and rsi_ma.
StrategyRsis == {NaN, Fl(0), Fl(30), Fl(70), Fl(100)}

\* Values passed as a price: the closes of the feed and prices around 100.
StrategyPrices ==
    Prices \cup {Decimal(PricePrecision, 98, 1), Decimal(PricePrecision, 989, 10),
                 Decimal(PricePrecision, 99, 1), Decimal(PricePrecision, 100, 1),
                 Decimal(PricePrecision, 101, 1)}

\* One call of check_for_buy, of any arguments.
CallCheckForBuy ==
    \E rsi \in StrategyRsis, ma \in StrategyRsis, price \in StrategyPrices,
       prev \in StrategyPrices, invested \in BOOLEAN :
        /\ strategy_call = NoCall
        /\ strategy_call' =
              [fn |-> "check_for_buy", rsi_now |-> rsi, rsi_ma |-> ma,
               current_price |-> price, prev_price |-> prev,
               is_invested |-> invested,
               result |-> check_for_buy(rsi, ma, price, prev, invested)]
        /\ UNCHANGED <<runVars, earlier, other, assistant>>

\* One call of check_for_sell, of any arguments.
CallCheckForSell ==
    \E rsi \in StrategyRsis, ma \in StrategyRsis, price \in StrategyPrices,
       purchase \in StrategyPrices, invested \in BOOLEAN :
        /\ strategy_call = NoCall
        /\ strategy_call' =
              [fn |-> "check_for_sell", rsi_now |-> rsi, rsi_ma |-> ma,
               current_price |-> price, purchase_price |-> purchase,
               is_invested |-> invested,
               result |-> check_for_sell(rsi, ma, price, purchase, invested)]
        /\ UNCHANGED <<runVars, earlier, other, assistant>>

NextStrategy == CallCheckForBuy \/ CallCheckForSell

SpecStrategy == Init /\ [][NextStrategy]_vars

----------------------------------------------------------------------------
(* TradingAssistant.chat and reset_conversation (copilot.py) *)

\* What a tool call of a reply does when chat processes it: "ok" runs the
\* tool and gives its response; the name is not a key of available_functions
\* (KeyError, line 122); the arguments are not JSON (json.loads raises, line
\* 114); the tool function raises (line 123).
ToolCallKinds == {"ok", "unknown_name", "malformed_arguments", "tool_raises"}

\* The assistant during the call of chat: position p, history msgs.
ChatAt(p, msgs) == [assistant EXCEPT !.pc = p, !.messages = msgs]

\* The assistant after chat has returned or raised, or after a reset.
ChatOver(how, msgs) ==
    [messages |-> msgs, pc |-> "idle", tool_calls |-> <<>>, done |-> 0,
     last |-> how]

\* chat(user_message): the user message is appended (lines 84-87).  The call
\* is made when the history has room for all it may append.
ChatAppendsUser ==
    /\ assistant.pc = "idle"
    /\ Len(assistant.messages) + MaxToolCalls + 3 <= MaxMessages
    /\ assistant' = ChatAt("first_completion",
                           Append(assistant.messages, Message("user", <<>>, <<>>)))
    /\ UNCHANGED <<runVars, earlier, other, strategy_call>>

\* The first completion call raises (lines 90-95); routes.chat catches it.
FirstCompletionRaises ==
    /\ assistant.pc = "first_completion"
    /\ assistant' = ChatOver("raised", assistant.messages)
    /\ UNCHANGED <<runVars, earlier, other, strategy_call>>

\* The reply has no tool calls: it is appended and returned (lines 101-106).
AnswerWithoutTools ==
    /\ assistant.pc = "first_completion"
    /\ assistant' = ChatOver("returned",
                             Append(assistant.messages,
                                    Message("assistant", <<>>, <<>>)))
    /\ UNCHANGED <<runVars, earlier, other, strategy_call>>

\* The reply has tool calls: response_message is appended (line 109).
AssistantCallsTools ==
    /\ assistant.pc = "first_completion"
    /\ \E n \in 1..MaxToolCalls : \E calls \in [1..n -> ToolCallKinds] :
           assistant' =
               [ChatAt("tools",
                       Append(assistant.messages,
                              Message("assistant", calls \o <<>>, <<>>)))
                   EXCEPT !.tool_calls = calls \o <<>>, !.done = 0]
    /\ UNCHANGED <<runVars, earlier, other, strategy_call>>

\* for tool_call in tool_calls: the next tool call.
tool_call == assistant.tool_calls[assistant.done + 1]

\* The index in the history of the assistant message that carries tool_calls.
ToolCallsAt == Len(assistant.messages) - assistant.done

\* One pass of the loop body: the tool runs and its response is appended as
\* a tool message (lines 113-140).
ToolCallAnswered ==
    /\ assistant.pc = "tools"
    /\ assistant.done < Len(assistant.tool_calls)
    /\ tool_call = "ok"
    /\ assistant' =
           [assistant EXCEPT
               !.messages = Append(assistant.messages,
                                   Message("tool", <<>>,
                                           <<ToolCallsAt, assistant.done + 1>>)),
               !.done = assistant.done + 1]
    /\ UNCHANGED <<runVars, earlier, other, strategy_call>>

\* One pass of the loop body raises (lines 114, 122, 123): the exception
\* leaves chat, and routes.chat catches it.
ToolCallRaises ==
    /\ assistant.pc = "tools"
    /\ assistant.done < Len(assistant.tool_calls)
    /\ tool_call # "ok"
    /\ assistant' = ChatOver("raised", assistant.messages)
    /\ UNCHANGED <<runVars, earlier, other, strategy_call>>

\* The completion call after the loop raises (lines 143-146).
FinalCompletionRaises ==
    /\ assistant.pc = "tools"
    /\ assistant.done = Len(assistant.tool_calls)
    /\ assistant' = ChatOver("raised", assistant.messages)
    /\ UNCHANGED <<runVars, earlier, other, strategy_call>>

\* The final response is appended and returned (lines 148-156).
FinalAnswer ==
    /\ assistant.pc = "tools"
    /\ assistant.done = Len(assistant.tool_calls)
    /\ assistant' = ChatOver("returned",
                             Append(assistant.messages,
                                    Message("assistant", <<>>, <<>>)))
    /\ UNCHANGED <<runVars, earlier, other, strategy_call>>

\* self.messages = [self.messages[0]]
reset_conversation ==
    /\ assistant.pc = "idle"
    /\ assistant' = ChatOver("reset", <<assistant.messages[1]>>)
    /\ UNCHANGED <<runVars, earlier, other, strategy_call>>

NextChat ==
    \/ ChatAppendsUser
    \/ FirstCompletionRaises
    \/ AnswerWithoutTools
    \/ AssistantCallsTools
    \/ ToolCallAnswered
    \/ ToolCallRaises
    \/ FinalCompletionRaises
    \/ FinalAnswer
    \/ reset_conversation

SpecChat == Init /\ [][NextChat]_vars

----------------------------------------------------------------------------
(* Properties *)

Last(s) == s[Len(s)]

\* The loop body ran: one more bar was evaluated.
BarStep == Len(evaluated') = Len(evaluated) + 1

\* A trade record was appended.
TradeStep == Len(trades') = Len(trades) + 1

\* The value of x in units of 2^e (an integer when e <= x.e).
Scaled(x, e) == x.m * (2 ^ (x.e - e))

\* |a - b| <= n * 2^(-Precision) * |c|, computed exactly: a and b differ by at
\* most n rounding errors of a value of the size of c.
Within(a, b, n, c) ==
    /\ IsNum(a) /\ IsNum(b) /\ IsNum(c)
    /\ LET e == Min2(a.e, Min2(b.e, c.e))
       IN  Abs(Scaled(a, e) - Scaled(b, e)) * (2 ^ Precision) <= n * Abs(Scaled(c, e))

\* Total equity with the position marked at price p.
Equity(c, q, p) == Add(c, Mul(q, p))

CountAction(a) == Cardinality({k \in 1..Len(trades) : trades[k].action = a})

\* C1: the ledger alternates BUY, SELL, BUY, SELL, ...: its first record is a
\* BUY and no two consecutive records have the same action.
C1_LedgerAlternates ==
    \A k \in 1..Len(trades) :
        trades[k].action = IF k % 2 = 1 THEN "BUY" ELSE "SELL"

\* A run that bought, sold and bought again.
C1_Witness ==
    /\ Len(trades) >= 3
    /\ trades[1].action = "BUY"
    /\ trades[2].action = "SELL"
    /\ trades[3].action = "BUY"

\* C2: a BUY is executed only from a state that is not invested and a SELL
\* only from a state that is invested; no SELL is executed while FLAT.
C2_TradeOnlyInState ==
    [][TradeStep =>
          /\ Last(trades').action = "BUY" => (~in_position /\ in_position')
          /\ Last(trades').action = "SELL" => (in_position /\ ~in_position')]_vars

\* A run that has executed a BUY and then a SELL.
C2_Witness ==
    /\ Len(trades) >= 2
    /\ Last(trades).action = "SELL"
    /\ ~in_position

\* C3: with positive initial_capital and positive closes, cash >= 0 and
\* position >= 0 after every bar (and at every other point of the run).
C3_NonNegative ==
    (Less(Fl(0), initial_capital) /\ \A n \in 1..Len(bars) : Less(Fl(0), bars[n].close))
        => (LessEq(Fl(0), cash) /\ LessEq(Fl(0), position))

\* A run that sold at a loss and still has positive cash.
C3_Witness ==
    /\ Len(trades) >= 2
    /\ Last(trades).action = "SELL"
    /\ Less(Last(trades).profit, Fl(0))
    /\ Less(Fl(0), cash)
    /\ Less(Fl(0), initial_capital)

\* C4 as stated: a BUY or a SELL leaves cash + position * current_price
\* exactly as it was.
C4_Original ==
    [][TradeStep =>
          Equity(cash', position', current_price)
              = Equity(cash, position, current_price)]_vars

\* C4, amended: a SELL leaves the equity marked at the bar's close exactly as
\* it was; a BUY leaves it as it was up to the rounding of cash / price and of
\* position * price (at most 3 units of 2^-Precision of the cash); while FLAT
\* the position is 0 and the equity is the cash.
C4_EquityKept ==
    /\ [][(TradeStep /\ Last(trades').action = "SELL") =>
             Equity(cash', position', current_price)
                 = Equity(cash, position, current_price)]_vars
    /\ [][(TradeStep /\ Last(trades').action = "BUY") =>
             Within(Equity(cash', position', current_price),
                    Equity(cash, position, current_price), 3, cash)]_vars
    /\ [](~in_position =>
             /\ position = Fl(0)
             /\ \A p \in Prices : Equity(cash, position, p) = cash)

\* A BUY whose quantity, marked at the price paid, is not the cash spent.
C4_Witness ==
    /\ in_position
    /\ Last(trades).action = "BUY"
    /\ Last(evaluated) = Last(trades).timestamp
    /\ Mul(position, Last(trades).price) # Last(trades).value

\* C5: at a bar where the run is FLAT and the buy decision is true the run
\* becomes LONG with position = cash / current_price and cash = 0, and exactly
\* one BUY record of that bar's timestamp, price and quantity is appended; all
\* the cash is committed.
C5_BuyAllIn ==
    [][(InLoop /\ ~in_position /\ BuySignal) =>
          /\ in_position'
          /\ position' = Div(cash, current_price)
          /\ position_value' = cash
          /\ cash' = Fl(0)
          /\ trades' = Append(trades, Last(trades'))
          /\ Last(trades').action = "BUY"
          /\ Last(trades').timestamp = timestamp
          /\ Last(trades').price = current_price
          /\ Last(trades').amount = position'
          /\ Last(trades').value = cash]_vars

\* The state right after a BUY.
C5_Witness ==
    /\ in_position
    /\ Last(trades).action = "BUY"
    /\ Last(evaluated) = Last(trades).timestamp
    /\ cash = Fl(0)
    /\ Less(Fl(0), position)

\* The effects of a SELL whose cost basis is cost(position, entry record).
SellEffects(cost) ==
    /\ ~in_position'
    /\ cash' = Mul(position, current_price)
    /\ position' = Fl(0)
    /\ position_value' = Fl(0)
    /\ trades' = Append(trades, Last(trades'))
    /\ Last(trades').action = "SELL"
    /\ Last(trades').timestamp = timestamp
    /\ Last(trades').price = current_price
    /\ Last(trades').profit = Sub(cash', cost)
    /\ Last(trades').profit_pct = Mul(Div(Sub(cash', cost), cost), Fl(100))

\* C6 as stated: at a bar where the run is LONG and the sell decision is true
\* the run is liquidated and the SELL record's profit and profit_pct are
\* computed against quantity * entry_price, entry_price being the price of
\* the preceding BUY record.
C6_Original ==
    [][(InLoop /\ in_position /\ SellSignal) =>
          SellEffects(Mul(position, Last(trades).price))]_vars

\* C6, amended: profit and profit_pct are computed against position_value,
\* the cash committed at the preceding BUY (that record's value), which
\* equals quantity * entry_price only up to rounding.
C6_SellAllOut ==
    [][(InLoop /\ in_position /\ SellSignal) =>
          /\ SellEffects(position_value)
          /\ Last(trades).action = "BUY"
          /\ position_value = Last(trades).value
          /\ Within(Mul(position, Last(trades).price), position_value, 3,
                    position_value)]_vars

\* A SELL of a position whose quantity * entry_price is not its position_value.
C6_Witness ==
    /\ Len(trades) >= 2
    /\ ~in_position
    /\ Last(trades).action = "SELL"
    /\ Last(evaluated) = Last(trades).timestamp
    /\ Mul(Last(trades).amount, trades[Len(trades) - 1].price)
           # trades[Len(trades) - 1].value

\* C7: a bar at which neither the FLAT-and-buy nor the LONG-and-sell condition
\* holds leaves cash, position, position_value, in_position and the ledger
\* unchanged.
C7_HoldUnchanged ==
    [][(InLoop /\ ~(~in_position /\ BuySignal) /\ ~(in_position /\ SellSignal)) =>
          UNCHANGED tradingVars]_vars

\* A bar evaluated after the last BUY, with the position still held.
C7_Witness ==
    /\ in_position
    /\ Len(trades) >= 1
    /\ Last(evaluated) > Last(trades).timestamp

\* The three figures of the summary as the claim gives them; the last bar is
\* the last bar the loop ran over (bars.iloc[-1]).
SummaryFigures ==
    /\ final_value =
          Add(cash, IF in_position THEN Mul(position, Last(frame).close) ELSE Fl(0))
    /\ total_return = Sub(final_value, initial_capital)
    /\ total_return_pct = Mul(Div(total_return, initial_capital), Fl(100))

\* C8 as stated: the three figures, and final_value equals
\* initial_capital + total_return exactly.
C8_Original ==
    pc = "done" =>
        /\ SummaryFigures
        /\ final_value = Add(initial_capital, total_return)

\* C8, amended: the three figures; initial_capital + total_return equals
\* final_value exactly when each of final_value and initial_capital is at
\* most twice the other, and otherwise up to the rounding of the subtraction
\* and of the addition (at most 4 units of 2^-Precision of the larger one).
C8_Valuation ==
    pc = "done" =>
        /\ SummaryFigures
        /\ Within(Add(initial_capital, total_return), final_value, 4,
                  IF Less(final_value, initial_capital) THEN initial_capital
                  ELSE final_value)
        /\ (/\ LessEq(final_value, Mul(Fl(2), initial_capital))
            /\ LessEq(initial_capital, Mul(Fl(2), final_value)))
              => final_value = Add(initial_capital, total_return)

\* A finished run that traded and whose initial_capital + total_return is not
\* its final_value.
C8_Witness ==
    /\ pc = "done"
    /\ Len(trades) >= 1
    /\ Add(initial_capital, total_return) # final_value

\* C9 as stated: a run that is LONG when the bars are exhausted executes no
\* SELL at the end: its last record is a BUY, it has one BUY more than SELLs
\* and its position is valued at the close of the final bar of the feed; a
\* run that ends FLAT has as many BUYs as SELLs.
C9_Original ==
    pc = "done" =>
        /\ in_position =>
              /\ Len(trades) >= 1
              /\ Last(trades).action = "BUY"
              /\ CountAction("BUY") = CountAction("SELL") + 1
              /\ position = Last(trades).amount
              /\ final_value = Add(cash, Mul(position, Last(bars).close))
        /\ ~in_position => CountAction("BUY") = CountAction("SELL")

\* The part of C9 that holds: as C9_Original, with the position valued at
\* the close of the last bar that dropna() left (bars.iloc[-1]).
C9_OpenAtEnd ==
    pc = "done" =>
        /\ in_position =>
              /\ Len(trades) >= 1
              /\ Last(trades).action = "BUY"
              /\ CountAction("BUY") = CountAction("SELL") + 1
              /\ position = Last(trades).amount
              /\ final_value = Add(cash, Mul(position, Last(frame).close))
        /\ ~in_position => CountAction("BUY") = CountAction("SELL")

\* A run that bought, sold, bought again and ended holding the position.
C9_Witness ==
    /\ pc = "done"
    /\ in_position
    /\ Len(trades) = 3

\* The timestamps of the bars whose rsi and rsi_ma are both defined.
DefinedTimestamps ==
    LET f == DropNa(Annotate(bars))
    IN  [n \in 1..Len(f) |-> f[n].timestamp]

\* C10 as stated: the transition rule is evaluated once for every bar with
\* defined rsi and rsi_ma, in chronological order, the first such bar included.
C10_Original == pc = "done" => evaluated = DefinedTimestamps

\* The run was started on the feed (the indicators were computed and the
\* trading variables set) or has returned its ledger and final value.
Simulated == pc \in {"loop", "done"}

\* C11 as stated: a feed of fewer than 2 * window bars (27 bars for windows
\* of 14) is rejected: the simulation does not start and no result is
\* returned.
C11_Original == Len(bars) < 2 * Window => ~Simulated

\* C12 as stated: a run given a non-positive initial_capital is rejected
\* before the loop: no bar is evaluated, no trade record is created and no
\* final value is returned.  (The windows are fixed at 14 in __init__ and
\* cannot be given non-positive.)
C12_Original ==
    ~Less(Fl(0), initial_capital) =>
        /\ evaluated = <<>>
        /\ trades = <<>>
        /\ pc # "done"

\* The timestamps of the feed are strictly increasing.
StrictlyIncreasing(f) ==
    \A n \in 1..(Len(f) - 1) : f[n].timestamp < f[n + 1].timestamp

\* C13 as stated: a feed whose timestamps are not strictly increasing is
\* rejected before the simulation starts, and no trade is executed on it.
C13_Original == ~StrictlyIncreasing(bars) => (~Simulated /\ trades = <<>>)

\* Values of rsi_prev other than the previous bar's rsi.
OtherRsiPrev == {NaN, Fl(0), Fl(50), Fl(100)}

\* C14: at every evaluated bar a BUY is executed iff the run is not invested
\* and rsi_now > rsi_ma_now and price_now > price_prev, and a SELL is executed
\* iff the run is invested and rsi_now < rsi_ma_now and price_now <
\* price_prev, all comparisons strict; buy and sell give the same answer for
\* every rsi_prev.
C14_CrossoverDecisions ==
    [][BarStep =>
          /\ (TradeStep /\ Last(trades').action = "BUY")
                <=> (/\ ~in_position
                     /\ Less(rsi_ma_now, rsi_now)
                     /\ Less(prev_price, current_price))
          /\ (TradeStep /\ Last(trades').action = "SELL")
                <=> (/\ in_position
                     /\ Less(rsi_now, rsi_ma_now)
                     /\ Less(current_price, prev_price))
          /\ \A r \in OtherRsiPrev :
                /\ buy(r, rsi_now, rsi_ma_now, current_price, prev_price)
                      = BuySignal
                /\ sell(r, rsi_now, rsi_ma_now, current_price, prev_price)
                      = SellSignal]_vars

\* A run not invested has just evaluated a bar whose close rose and whose rsi
\* equals its rsi_ma, and did not buy.
C14_Witness ==
    /\ pc = "loop"
    /\ i >= 2
    /\ Len(evaluated) = i - 1
    /\ ~in_position
    /\ trades = <<>>
    /\ frame[i].rsi = frame[i].rsi_ma
    /\ Less(frame[i - 1].close, frame[i].close)

\* s is the first records of t.
IsPrefix(s, t) == Len(s) <= Len(t) /\ s = SubSeq(t, 1, Len(s))

\* The call of locals r has so far done what the earlier call, alone on the
\* same bars and capital, did, and returns what it returned.
AsAlone(r) ==
    (r.bars = earlier.bars /\ r.initial_capital = earlier.initial_capital) =>
        /\ r.pc \in {"fetched_df", "loop", "done"}
        /\ IsPrefix(r.trades, earlier.trades)
        /\ r.pc = "done" =>
              (r.trades = earlier.trades /\ r.final_value = earlier.final_value)

\* C17: a call of run_backtest keeps cash, position, the invested flag and the
\* ledger in its own locals and the strategy functions depend on their
\* arguments only, so under every interleaving of the steps of two calls each
\* call builds the ledger and returns the final value it has when it runs
\* alone on the same bars and capital.
C17_RunsDoNotInterfere ==
    (earlier # NoRun /\ other # NoRun) => (AsAlone(Locals) /\ AsAlone(other))

\* Both calls are inside their loops, each has traded, and one is invested
\* while the other is not.
C17_Witness ==
    /\ other # NoRun
    /\ pc = "loop"
    /\ other.pc = "loop"
    /\ Len(trades) >= 1
    /\ Len(other.trades) >= 1
    /\ Len(evaluated) >= 2
    /\ Len(other.evaluated) >= 2
    /\ in_position
    /\ ~other.in_position

\* C18: a second call of run_backtest on the same bars, with the same windows
\* and initial_capital, returns the ledger of the first, record for record
\* (timestamp, action, price, amount, value, profit ...), and the same
\* final_value.
C18_SameResultTwice ==
    (/\ earlier # NoRun
     /\ pc = "done"
     /\ bars = earlier.bars
     /\ initial_capital = earlier.initial_capital)
        => (trades = earlier.trades /\ final_value = earlier.final_value)

\* The second call has returned, with a ledger of a BUY, a SELL and a BUY.
C18_Witness ==
    /\ earlier # NoRun
    /\ pc = "done"
    /\ Len(trades) = 3
    /\ Len(earlier.trades) = 3

\* The number of leading bars on which the feeds a and b agree.
RECURSIVE Agree(_, _)
Agree(a, b) ==
    IF a = <<>> \/ b = <<>> \/ Head(a) # Head(b) THEN 0
    ELSE 1 + Agree(Tail(a), Tail(b))

\* The rows (of a frame or of a ledger) of the bars up to timestamp t.
UpTo(rows, t) == SelectSeq(rows, LAMBDA row : row.timestamp <= t)

\* cash, position and in_position after the last record of a ledger.
StateAfter(ledger, capital) ==
    IF ledger = <<>> THEN <<capital, Fl(0), FALSE>>
    ELSE IF Last(ledger).action = "BUY" THEN <<Fl(0), Last(ledger).amount, TRUE>>
    ELSE <<Last(ledger).value, Fl(0), FALSE>>

\* The timestamp of the bar evaluated last, 0 before the first.
LastEvaluated == IF evaluated = <<>> THEN 0 ELSE Last(evaluated)

\* C19: when the bars of two calls agree up to bar k, the rows with defined
\* rsi and rsi_ma up to bar k and their rsi and rsi_ma are the same in both,
\* and after every bar up to k the second call has the ledger the first had
\* after that bar (the same decisions, record for record) and the cash,
\* position and in_position that go with it, however the bars after k differ
\* or are missing.
C19_NoLookAhead ==
    (earlier # NoRun /\ pc \in {"loop", "done"}) =>
        LET k == Agree(bars, earlier.bars)
            t == LastEvaluated
        IN  /\ UpTo(frame, k) = UpTo(earlier.frame, k)
            /\ t <= k =>
                  /\ trades = UpTo(earlier.trades, t)
                  /\ <<cash, position, in_position>>
                        = StateAfter(UpTo(earlier.trades, t), initial_capital)
            /\ pc = "done" => UpTo(trades, k) = UpTo(earlier.trades, k)

\* The second call has returned; its bars have the length of the first's and
\* differ from some bar on, both calls made the same first trade on the bars
\* they share, and their ledgers differ.
C19_Witness ==
    /\ earlier # NoRun
    /\ pc = "done"
    /\ Len(bars) = Len(earlier.bars)
    /\ trades # <<>>
    /\ earlier.trades # <<>>
    /\ trades[1] = earlier.trades[1]
    /\ trades[1].timestamp <= Agree(bars, earlier.bars)
    /\ trades # earlier.trades

\* The closes of the feed rise from every bar to the next.
Rising(f) == \A n \in 1..(Len(f) - 1) : Less(f[n].close, f[n + 1].close)

\* C20 as stated: on a feed of 2 * window + 2 bars (30 bars for windows of 14)
\* with strictly increasing closes the ledger holds exactly one BUY and no
\* SELL, the run ends holding the position, and final_value >
\* initial_capital.
C20_Original ==
    (pc = "done" /\ Len(bars) = 2 * Window + 2 /\ Rising(bars)) =>
        /\ CountAction("BUY") = 1
        /\ CountAction("SELL") = 0
        /\ in_position
        /\ Less(initial_capital, final_value)

\* A call of fn was made.
Made(fn) == strategy_call.fn = fn

\* C15: check_for_sell returns false whenever is_invested is false;
\* otherwise it returns true iff current_price < purchase_price * 0.99 or
\* rsi_now < rsi_ma.  With a purchase price of 100 a price of 98.9 gives true
\* whatever the rsi values; a price equal to purchase_price * 0.99 (for a
\* purchase price of 100, the price 99) with rsi_now >= rsi_ma gives false.
C15_StopLossSell ==
    Made("check_for_sell") =>
        LET c == strategy_call
            stop == MulTo(PricePrecision, c.purchase_price, StopLossFactor)
        IN  /\ ~c.is_invested => ~c.result
            /\ c.is_invested =>
                  (c.result <=> (Less(c.current_price, stop)
                                   \/ Less(c.rsi_now, c.rsi_ma)))
            /\ (/\ c.is_invested
                /\ c.purchase_price = Decimal(PricePrecision, 100, 1)
                /\ c.current_price = Decimal(PricePrecision, 989, 10))
                  => c.result
            /\ (/\ c.is_invested
                /\ LessEq(c.rsi_ma, c.rsi_now)
                /\ \/ c.current_price = stop
                   \/ /\ c.purchase_price = Decimal(PricePrecision, 100, 1)
                      /\ c.current_price = Decimal(PricePrecision, 99, 1))
                  => ~c.result

\* check_for_sell said to sell 98.9 after a purchase at 100, on the stop-loss
\* alone.
C15_Witness ==
    /\ Made("check_for_sell")
    /\ strategy_call.is_invested
    /\ strategy_call.purchase_price = Decimal(PricePrecision, 100, 1)
    /\ strategy_call.current_price = Decimal(PricePrecision, 989, 10)
    /\ strategy_call.rsi_now = Fl(70)
    /\ strategy_call.rsi_ma = Fl(30)
    /\ strategy_call.result

\* C16: check_for_buy with is_invested false returns what logic.buy returns
\* on the same rsi_now, rsi_ma, current_price and prev_price, whatever the
\* rsi_prev given to buy; with is_invested true it returns false.
C16_SameBuyCondition ==
    Made("check_for_buy") =>
        LET c == strategy_call
        IN  /\ c.is_invested => ~c.result
            /\ ~c.is_invested =>
                  \A r \in StrategyRsis :
                      c.result = buy(r, c.rsi_now, c.rsi_ma,
                                     c.current_price, c.prev_price)

\* check_for_buy said to buy at 99 after 98.9, not invested.
C16_Witness ==
    /\ Made("check_for_buy")
    /\ ~strategy_call.is_invested
    /\ strategy_call.current_price = Decimal(PricePrecision, 99, 1)
    /\ strategy_call.prev_price = Decimal(PricePrecision, 989, 10)
    /\ strategy_call.result

\* Every bar of the feed has the close of the first.
Flat(f) == \A n \in 1..Len(f) : f[n].close = f[1].close

\* C21: on a feed of one or more bars whose close is constant no BUY is ever
\* executed, the ledger stays empty, and the final_value returned is
\* initial_capital.
C21_FlatFeed ==
    (Len(bars) >= 1 /\ Flat(bars)) =>
        /\ trades = <<>>
        /\ ~in_position
        /\ pc # "returned_none"
        /\ pc = "done" => final_value = initial_capital

\* A run on a flat feed long enough for both windows has returned.
C21_Witness ==
    /\ pc = "done"
    /\ Len(bars) >= 2 * Window + 1
    /\ Flat(bars)
    /\ final_value = initial_capital

\* The close column of the feed b, and its average gain and average loss
\* over the trailing rsi window.
Closes(b) == Series([n \in 1..Len(b) |-> b[n].close])

AvgGain(b) == RollingMean(WherePositive(Diff(Closes(b))), rsi_window)

AvgLoss(b) == RollingMean(NegSeries(WhereNegative(Diff(Closes(b)))), rsi_window)

\* The row of the bar of timestamp t is in the frame the loop runs over.
InFrame(t) == \E r \in 1..Len(frame) : frame[r].timestamp = t

\* The indices of the feed b with an average loss of 0 and an average gain
\* above 0.
PureGains(b) ==
    LET gain == AvgGain(b)
        loss == AvgLoss(b)
    IN  {n \in 1..Len(b) : loss[n] = Fl(0) /\ Less(Fl(0), gain[n])}

PureGain(b, n) == n \in PureGains(b)

\* C22: at every index whose average loss is 0 and average gain is above 0
\* the rsi is the number 100; an rsi_ma window made of such indices is a
\* number too, and a row whose rsi_ma is a number is kept by dropna().
\* Stated of the feed when it has been fetched and of the frame when the
\* loop starts: neither changes afterwards.
C22_RsiHundredOnZeroLoss ==
    (pc = "fetched_df" \/ (pc = "loop" /\ i = 1)) =>
        LET pure == PureGains(bars)
            rows == Annotate(bars)
        IN  \A n \in pure :
                /\ rows[n].rsi = Fl(100)
                /\ (n >= ma_window /\ (n - ma_window + 1)..n \subseteq pure)
                       => IsNum(rows[n].rsi_ma)
                /\ (pc = "loop" /\ IsNum(rows[n].rsi_ma))
                       => InFrame(bars[n].timestamp)

\* A bar with a zero average loss has been the current bar of a decision
\* with an rsi of 100.
C22_Witness ==
    /\ pc = "done"
    /\ \E n \in 1..Len(evaluated), r \in 1..Len(frame) :
           /\ PureGain(bars, evaluated[n])
           /\ frame[r].timestamp = evaluated[n]
           /\ frame[r].rsi = Fl(100)
           /\ IsNum(frame[r].rsi_ma)

\* C23: the rsi is undefined at each of the first w indices of the feed, and
\* no bar whose rsi or rsi_ma is undefined is the current or the previous
\* bar of a decision.
C23_Original ==
    /\ pc = "fetched_df" =>
           \A n \in 1..Min2(rsi_window, Len(bars)) : IsNaN(Annotate(bars)[n].rsi)
    /\ (pc = "loop" /\ i = 1) =>
           \A r \in 1..Len(frame) : ~HasNaN(frame[r])

\* C24 as stated: at every bar boundary a run that is not invested has
\* position = 0 and position_value = 0, and a run that is invested has
\* cash = 0, position > 0 and position_value equal to position times the
\* price of the last BUY.
C24_Original ==
    Simulated =>
        /\ ~in_position => (position = Fl(0) /\ position_value = Fl(0))
        /\ in_position =>
               /\ cash = Fl(0)
               /\ Less(Fl(0), position)
               /\ trades # <<>>
               /\ Last(trades).action = "BUY"
               /\ position_value = Mul(position, Last(trades).price)

\* C24, amended: the entry cost of an invested run is the cash committed at
\* the last BUY (that record's value), which equals position times the BUY
\* price only up to rounding.
C24_PositionState ==
    Simulated =>
        /\ ~in_position => (position = Fl(0) /\ position_value = Fl(0))
        /\ in_position =>
               /\ cash = Fl(0)
               /\ Less(Fl(0), position)
               /\ trades # <<>>
               /\ Last(trades).action = "BUY"
               /\ position = Last(trades).amount
               /\ position_value = Last(trades).value
               /\ Within(Mul(position, Last(trades).price), position_value, 3,
                         position_value)

\* A run that ends invested, with an entry cost that is not its quantity
\* times the price paid.
C24_Witness ==
    /\ pc = "done"
    /\ in_position
    /\ cash = Fl(0)
    /\ Less(Fl(0), position)
    /\ position_value # Mul(position, Last(trades).price)

\* C25: the previous bar of every evaluated bar, whose close is prev_price
\* and whose rsi is rsi_prev, is the bar immediately before it in the feed
\* that was fetched.
C25_Original ==
    InLoop =>
        \E n \in 2..Len(bars) :
            /\ bars[n].timestamp = timestamp
            /\ bars[n - 1].timestamp = prev_bar.timestamp
            /\ bars[n - 1].close = prev_price

\* C26: at most one trade record is appended per evaluated bar and none
\* otherwise, so no two records carry the same timestamp and the ledger is
\* never longer than the number of evaluated bars; the ledger only grows; and
\* its timestamps are strictly increasing (the timestamps of the feed are).
C26_OneTradePerBar ==
    /\ [](/\ Len(trades) <= Len(evaluated)
          /\ \A k \in 1..Len(trades) :
                 /\ \E n \in 1..Len(evaluated) : evaluated[n] = trades[k].timestamp
                 /\ k > 1 => trades[k - 1].timestamp < trades[k].timestamp)
    /\ [][/\ IsPrefix(trades, trades')
          /\ Len(trades') <= Len(trades) + 1
          /\ TradeStep => (BarStep /\ Last(trades').timestamp = Last(evaluated'))
         ]_vars

\* A run that bought at one bar and sold at the very next.
C26_Witness ==
    /\ pc = "done"
    /\ Len(trades) >= 2
    /\ trades[1].action = "BUY"
    /\ trades[2].action = "SELL"
    /\ \E n \in 1..(Len(evaluated) - 1) :
           /\ evaluated[n] = trades[1].timestamp
           /\ evaluated[n + 1] = trades[2].timestamp

\* get_historical_data returned None, or a DataFrame of no bars.
NoData == pc = "fetched_none" \/ (pc = "fetched_df" /\ Len(bars) = 0)

\* C27: a fetch either returns bars or, when it raises, None: the exception
\* does not leave get_historical_data.  After None or zero bars the call
\* returns (None, None) at once: no indicator is computed, no bar is
\* evaluated and no trade record is made.
C27_NoDataReturnsNone ==
    /\ [][pc = "fetch" => pc' \in {"fetched_df", "fetched_none"}]_vars
    /\ [][NoData =>
             /\ pc' = "returned_none"
             /\ UNCHANGED <<frame, i, tradingVars, resultVars, evaluated>>]_vars
    /\ [](pc = "returned_none" =>
             /\ bars = <<>>
             /\ frame = <<>>
             /\ evaluated = <<>>
             /\ trades = <<>>)
    /\ [][pc = "returned_none" => pc' = "returned_none"]_vars

\* The call has returned (None, None).
C27_Witness ==
    /\ pc = "returned_none"
    /\ bars = <<>>
    /\ trades = <<>>
    /\ i = 0

\* The exact product of the numbers a and b, as m * 2^e.
Product(a, b) == [m |-> a.m * b.m, e |-> a.e + b.e]

\* |x2 * c1 - x1 * c2| in units of 2^e, computed exactly: 0 when x2 / x1 is
\* c2 / c1.
CrossDiff(x1, x2, c1, c2, e) ==
    Abs(Product(x2, c1).m * (2 ^ (Product(x2, c1).e - e))
            - Product(x1, c2).m * (2 ^ (Product(x1, c2).e - e)))

CrossExp(x1, x2, c1, c2) == Min2(Product(x2, c1).e, Product(x1, c2).e)

\* x2 is x1 scaled by c2 / c1, exactly.
ScaledExactly(x1, x2, c1, c2) ==
    /\ IsNum(x1) /\ IsNum(x2)
    /\ CrossDiff(x1, x2, c1, c2, CrossExp(x1, x2, c1, c2)) = 0

\* x2 is x1 scaled by c2 / c1 up to n rounding errors of a value of the size
\* of y1 scaled by c2 / c1.
ScaledWithin(x1, x2, c1, c2, n, y1) ==
    /\ IsNum(x1) /\ IsNum(x2) /\ IsNum(y1)
    /\ LET e == Min2(CrossExp(x1, x2, c1, c2), Product(y1, c2).e)
       IN  CrossDiff(x1, x2, c1, c2, e) * (2 ^ Precision)
               <= n * Abs(Product(y1, c2).m * (2 ^ (Product(y1, c2).e - e)))

\* c2 / c1 is a power of two.
PowerOfTwoFactor(c1, c2) == c1.m = c2.m

\* The records a and b are of the same bar, action and price, decided on
\* the same indicators.
SameDecision(a, b) ==
    /\ a.timestamp = b.timestamp
    /\ a.action = b.action
    /\ a.price = b.price
    /\ a.rsi = b.rsi
    /\ a.rsi_ma = b.rsi_ma
    /\ a.delta_rsi = b.delta_rsi
    /\ a.delta_price = b.delta_price

\* total_return_pct as lines 147-148 compute it from fv and capital.
ReturnPctOf(fv, capital) == Mul(Div(Sub(fv, capital), capital), Fl(100))

\* A second call is running or has returned.
Rerun == earlier # NoRun /\ Simulated

\* C28 as stated: the second call, on the same feed with k times the capital,
\* makes the same (timestamp, action, price) records with the same profit_pct
\* per SELL, every amount, value and profit and the final_value k times those
\* of the first call, and the same total_return_pct.
C28_Original ==
    Rerun =>
        /\ Len(trades) <= Len(earlier.trades)
        /\ pc = "done" => Len(trades) = Len(earlier.trades)
        /\ \A k \in 1..Len(trades) :
               LET a == earlier.trades[k]
                   b == trades[k]
                   c1 == earlier.initial_capital
                   c2 == initial_capital
               IN  /\ SameDecision(a, b)
                   /\ ScaledExactly(a.amount, b.amount, c1, c2)
                   /\ ScaledExactly(a.value, b.value, c1, c2)
                   /\ a.action = "SELL" =>
                          /\ ScaledExactly(a.profit, b.profit, c1, c2)
                          /\ a.profit_pct = b.profit_pct
        /\ pc = "done" =>
               /\ ScaledExactly(earlier.final_value, final_value,
                                earlier.initial_capital, initial_capital)
               /\ total_return_pct
                      = ReturnPctOf(earlier.final_value, earlier.initial_capital)

\* |x|
AbsOf(x) == IF x.m < 0 THEN Neg(x) ELSE x

\* The k-th record b of the second call against the k-th record a of the
\* first, n rounding errors allowed.
ScaledRecord(a, b, c1, c2, n) ==
    /\ SameDecision(a, b)
    /\ ScaledWithin(a.amount, b.amount, c1, c2, n, a.amount)
    /\ ScaledWithin(a.value, b.value, c1, c2, n, a.value)
    /\ a.action = "SELL" =>
           /\ ScaledWithin(a.profit, b.profit, c1, c2, n, a.value)
           /\ Within(a.profit_pct, b.profit_pct, n,
                     Add(Fl(100), AbsOf(a.profit_pct)))

\* C28, amended: the second call makes the same decisions at the same bars
\* and prices; when k is a power of two every amount, value and profit and
\* the final_value are exactly k times those of the first call and
\* profit_pct and total_return_pct are the same; for any other k they are so
\* up to rounding: at most 2 rounding errors per record made so far, and 2
\* more in the results.
C28_ScaleInvariance ==
    Rerun =>
        LET c1 == earlier.initial_capital
            c2 == initial_capital
            n == IF PowerOfTwoFactor(c1, c2) THEN 0 ELSE 2 * Len(trades) + 2
        IN  /\ Len(trades) <= Len(earlier.trades)
            /\ pc = "done" => Len(trades) = Len(earlier.trades)
            /\ \A k \in 1..Len(trades) :
                   ScaledRecord(earlier.trades[k], trades[k], c1, c2,
                                IF n = 0 THEN 0 ELSE 2 * k)
            /\ pc = "done" =>
                   /\ ScaledWithin(earlier.final_value, final_value, c1, c2,
                                   n, earlier.final_value)
                   /\ Within(total_return_pct,
                             ReturnPctOf(earlier.final_value, c1), n,
                             Add(Fl(100), AbsOf(total_return_pct)))

\* A second call with 3 times the capital has returned with a SELL whose
\* value is not 3 times that of the first call's.
C28_Witness ==
    /\ pc = "done"
    /\ earlier # NoRun
    /\ ~PowerOfTwoFactor(earlier.initial_capital, initial_capital)
    /\ \E k \in 1..Len(trades) :
           /\ trades[k].action = "SELL"
           /\ SameDecision(earlier.trades[k], trades[k])
           /\ ~ScaledExactly(earlier.trades[k].value, trades[k].value,
                             earlier.initial_capital, initial_capital)

\* C29: whenever logic.sell is true of an rsi_now, rsi_ma and current_price,
\* with any rsi_prev and prev_price, check_for_sell of the same rsi_now,
\* rsi_ma and current_price is true of an invested position, whatever the
\* purchase_price; check_for_sell does not look at the previous price, so it
\* is then true also when the price has not fallen.
C29_StopLossSellsWhenCrossoverSells ==
    (Made("check_for_sell") /\ strategy_call.is_invested) =>
        LET c == strategy_call
        IN  /\ (\E r \in StrategyRsis, prev \in StrategyPrices :
                    sell(r, c.rsi_now, c.rsi_ma, c.current_price, prev))
                   => c.result
            /\ Less(c.rsi_now, c.rsi_ma) => c.result

\* check_for_sell said to sell at a price above the purchase price, where
\* logic.sell says to sell after one previous price and not after another.
C29_Witness ==
    /\ Made("check_for_sell")
    /\ strategy_call.is_invested
    /\ strategy_call.result
    /\ Less(strategy_call.purchase_price, strategy_call.current_price)
    /\ sell(Fl(70), strategy_call.rsi_now, strategy_call.rsi_ma,
            strategy_call.current_price, Fl(4))
    /\ ~sell(Fl(70), strategy_call.rsi_now, strategy_call.rsi_ma,
             strategy_call.current_price, Fl(1))

\* The assistant message at index a of the history msgs is followed by
\* exactly one tool message per tool call it carries.
ToolCallsAnswered(msgs, a) ==
    LET n == Len(msgs[a].tool_calls)
    IN  /\ a + n <= Len(msgs)
        /\ \A j \in 1..n :
               /\ msgs[a + j].role = "tool"
               /\ msgs[a + j].tool_call_id = <<a, j>>
        /\ a + n < Len(msgs) => msgs[a + n + 1].role # "tool"

\* The history msgs starts with the system message, and every assistant
\* message that carries tool calls is followed by their tool messages.
WellFormed(msgs) ==
    /\ Len(msgs) >= 1
    /\ msgs[1] = SystemMessage
    /\ \A a \in 1..Len(msgs) :
           (msgs[a].role = "assistant" /\ msgs[a].tool_calls # <<>>)
               => ToolCallsAnswered(msgs, a)

\* C30: after any call of chat, whether it has returned or raised, the
\* history is well-formed, and after reset_conversation it is the system
\* message alone.
C30_Original ==
    assistant.pc = "idle" =>
        /\ WellFormed(assistant.messages)
        /\ assistant.last = "reset" => assistant.messages = <<SystemMessage>>

====
